---------------------------- MODULE Spec2Model ----------------------------
(***************************************************************************)
(* AEFR: the command bus, the background loader threads, the frame loop    *)
(* (drain, typewriter, parallel advance, paint, UI) and the console parser *)
(* of src/src/main.rs.                                                     *)
(*                                                                         *)
(* Text is a sequence of one-character strings.  An Option<T> is a         *)
(* sequence of length 0 (None) or 1 (Some).  Times are in milliseconds.    *)
(***************************************************************************)
EXTENDS Integers, Sequences, FiniteSets, TLC

VARIABLES
    logic_cores,          \* available_parallelism() as read by AefrScheduler::new
    worker_count,         \* AefrScheduler.worker_count
    current_name,         \* AefrApp.current_name
    current_affiliation,  \* AefrApp.current_affiliation
    target_chars,         \* AefrApp.target_chars
    visible_count,        \* AefrApp.visible_count
    type_timer,           \* AefrApp.type_timer (ms)
    characters,           \* AefrApp.characters: slot -> Option<SpineObject>
    background,           \* AefrApp.background: Option<texture of a path>
    audio_manager,        \* AefrApp.audio_manager: Option<AudioManager>; the sink's state
    queue,                \* the mpsc channel (tx, rx): commands in flight
    console_open,         \* AefrApp.console_open
    console_input,        \* AefrApp.console_input
    console_logs,         \* AefrApp.console_logs
    threads,              \* the detached background threads that have not sent yet
    pc,                   \* where the main thread is in AefrApp::update
    dt,                   \* stable_dt of the running frame (ms)
    pending,              \* parallel phase: occupied slots no worker has taken yet
    working,              \* parallel phase: worker -> Option<slot> it is advancing
    repaint,              \* ctx.request_repaint() was called in the running frame
    sent,                 \* history: every command ever sent, in arrival order
    applied,              \* history: ids of the commands applied, in order
    drainMark,            \* history: number of commands sent when the running drain began
    drained,              \* history: commands applied by the running drain
    spawned,              \* history: every thread ever spawned
    finished,             \* history: every thread that ended, with its outcome
    advanced,             \* history: slot -> advances in the running frame
    painted,              \* history: slots painted in the running frame
    io,                   \* history: blocking operations, with the thread that ran them
    inputs,               \* history: console lines entered so far
    mesh,                 \* vertices pushed by the running frame's paint, with their tints
    elapsed               \* history: frame time the dialogue shown has spent revealing (ms)

vars == << logic_cores, worker_count, current_name, current_affiliation,
           target_chars, visible_count, type_timer, characters, background,
           audio_manager, queue, console_open, console_input, console_logs,
           threads, pc, dt, pending, working, repaint, sent, applied,
           drainMark, drained, spawned, finished, advanced, painted, io, inputs,
           mesh, elapsed >>

---------------------------------------------------------------------------
(* Bounds of the model *)

\* console lines entered in one run
MaxInputs == 2

\* logical cores the machine may report
MaxCores == 8

\* bits of a colour channel's fraction
ColorBits == 2

---------------------------------------------------------------------------
(* Program constants *)

\* characters: (0..5).map(|_| None)
NumSlots == 5
\* type_speed: 0.03 s per character
type_speed == 30

Slots == 0 .. (NumSlots - 1)

---------------------------------------------------------------------------
(* Text *)

IsSpace(c) == c \in {" ", "\t", "\n"}

Digits == <<"0", "1", "2", "3", "4", "5", "6", "7", "8", "9">>
IsDigit(c) == \E i \in 1..10 : Digits[i] = c
DigitVal(c) == (CHOOSE i \in 1..10 : Digits[i] = c) - 1

Lower == <<"a","b","c","d","e","f","g","h","i","j","k","l","m",
           "n","o","p","q","r","s","t","u","v","w","x","y","z">>
Upper == <<"A","B","C","D","E","F","G","H","I","J","K","L","M",
           "N","O","P","Q","R","S","T","U","V","W","X","Y","Z">>

\* u8::to_ascii_lowercase
ToAsciiLower(c) ==
    IF \E i \in 1..26 : Upper[i] = c
    THEN Lower[CHOOSE i \in 1..26 : Upper[i] = c]
    ELSE c

\* str::eq_ignore_ascii_case
EqIgnoreAsciiCase(s, t) ==
    /\ Len(s) = Len(t)
    /\ \A i \in 1..Len(s) : ToAsciiLower(s[i]) = ToAsciiLower(t[i])

RECURSIVE TrimStart(_)
TrimStart(s) ==
    IF s # <<>> /\ IsSpace(Head(s)) THEN TrimStart(Tail(s)) ELSE s

RECURSIVE TrimEnd(_)
TrimEnd(s) ==
    IF s # <<>> /\ IsSpace(s[Len(s)]) THEN TrimEnd(SubSeq(s, 1, Len(s) - 1)) ELSE s

\* str::trim
Trim(s) == TrimEnd(TrimStart(s))

StartsWith(s, p) == Len(s) >= Len(p) /\ SubSeq(s, 1, Len(p)) = p

\* str::strip_prefix: Option<rest>
StripPrefix(s, p) ==
    IF StartsWith(s, p) THEN << SubSeq(s, Len(p) + 1, Len(s)) >> ELSE <<>>

\* index of the first c in s, 0 when there is none
FirstIndex(s, c) ==
    IF \E i \in 1..Len(s) : s[i] = c
    THEN CHOOSE i \in 1..Len(s) : s[i] = c /\ \A j \in 1..(i - 1) : s[j] # c
    ELSE 0

\* str::splitn(2, c)
SplitN2(s, c) ==
    LET i == FirstIndex(s, c) IN
    IF i = 0 THEN << s >>
    ELSE << SubSeq(s, 1, i - 1), SubSeq(s, i + 1, Len(s)) >>

\* str::split(c): every separator cuts, empty fields kept
RECURSIVE Split(_, _)
Split(s, c) ==
    LET i == FirstIndex(s, c) IN
    IF i = 0 THEN << s >>
    ELSE << SubSeq(s, 1, i - 1) >> \o Split(SubSeq(s, i + 1, Len(s)), c)

\* str::split_whitespace: maximal runs of non-whitespace
RECURSIVE SplitWhitespace(_)
SplitWhitespace(s) ==
    LET t == TrimStart(s) IN
    IF t = <<>> THEN <<>>
    ELSE LET n == IF \E i \in 1..Len(t) : IsSpace(t[i])
                  THEN (CHOOSE i \in 1..Len(t) :
                           IsSpace(t[i]) /\ \A j \in 1..(i - 1) : ~IsSpace(t[j])) - 1
                  ELSE Len(t)
         IN << SubSeq(t, 1, n) >> \o SplitWhitespace(SubSeq(t, n + 1, Len(t)))

\* str::replace(c, "")
RECURSIVE Remove(_, _)
Remove(s, c) ==
    IF s = <<>> THEN <<>>
    ELSE (IF Head(s) = c THEN <<>> ELSE << Head(s) >>) \o Remove(Tail(s), c)

RECURSIVE DigitsValue(_, _)
DigitsValue(s, acc) ==
    IF s = <<>> THEN acc ELSE DigitsValue(Tail(s), acc * 10 + DigitVal(Head(s)))

\* str::parse::<usize>: Option<value>; an optional '+', then one or more digits
ParseUsize(s) ==
    LET d == IF s # <<>> /\ Head(s) = "+" THEN Tail(s) ELSE s IN
    IF d # <<>> /\ \A i \in 1..Len(d) : IsDigit(d[i])
    THEN << DigitsValue(d, 0) >>
    ELSE <<>>

---------------------------------------------------------------------------
(* Commands, log lines, entities *)

\* A console log line: its format string and the arguments formatted into it.
LogLine(fmt, n, m, s) == [fmt |-> fmt, n |-> n, m |-> m, s |-> s]
NoLine == LogLine("", 0, 0, <<>>)

\* enum AppCommand; the fields a variant does not have are blank
Blank ==
    [kind |-> "", slot |-> 0, name |-> <<>>, aff |-> <<>>, text |-> <<>>,
     flag |-> FALSE, ent |-> <<>>, anims |-> <<>>, msg |-> NoLine, bytes |-> ""]

\* a Dialogue built with speaker and affiliation the wrong way round
DialogueSwapped(name, affiliation, content) ==
    [Blank EXCEPT !.kind = "Dialogue", !.name = affiliation, !.aff = name,
                  !.text = content]
Dialogue(name, affiliation, content) ==
    [Blank EXCEPT !.kind = "Dialogue", !.name = name, !.aff = affiliation,
                  !.text = content]
RequestLoad(slot_idx, path) ==
    [Blank EXCEPT !.kind = "RequestLoad", !.slot = slot_idx, !.text = path]
LoadSuccess(idx, obj, anims) ==
    [Blank EXCEPT !.kind = "LoadSuccess", !.slot = idx, !.ent = << obj >>,
                  !.anims = anims]
LoadBackground(path) == [Blank EXCEPT !.kind = "LoadBackground", !.text = path]
PlayBgm(path) == [Blank EXCEPT !.kind = "PlayBgm", !.text = path]
BgmReady(data) == [Blank EXCEPT !.kind = "BgmReady", !.bytes = data]
StopBgm == [Blank EXCEPT !.kind = "StopBgm"]
SetAnimation(slot_idx, anim_name, loop_anim) ==
    [Blank EXCEPT !.kind = "SetAnimation", !.slot = slot_idx, !.text = anim_name,
                  !.flag = loop_anim]
Log(msg) == [Blank EXCEPT !.kind = "Log", !.msg = msg]

\* keywords and literals of the console grammar
KwLoad == <<"L","O","A","D"," ">>
KwAnim == <<"A","N","I","M"," ">>
KwBgm  == <<"B","G","M"," ">>
KwStop == <<"S","T","O","P">>
KwTalk == <<"T","A","L","K"," ">>
KwBg   == <<"B","G"," ">>
KwHelp == <<"H","E","L","P">>
LitTrue == <<"t","r","u","e">>
Quote == "\""

\* The if / else-if chain of parse_and_send_command on the trimmed input:
\* the command it sends (an Option) and whether it prints the usage line.
ParseCommand(input) ==
    LET none == [cmd |-> <<>>, help |-> FALSE]
        some(c) == [cmd |-> << c >>, help |-> FALSE]
    IN
    IF StripPrefix(input, KwLoad) # <<>> THEN
        LET parts == SplitN2(StripPrefix(input, KwLoad)[1], " ") IN
        IF Len(parts) = 2 /\ ParseUsize(parts[1]) # <<>>
        THEN some(RequestLoad(ParseUsize(parts[1])[1], Remove(parts[2], Quote)))
        ELSE none
    ELSE IF StripPrefix(input, KwAnim) # <<>> THEN
        LET parts == SplitWhitespace(StripPrefix(input, KwAnim)[1]) IN
        IF Len(parts) >= 2 /\ ParseUsize(parts[1]) # <<>>
        THEN some(SetAnimation(ParseUsize(parts[1])[1], parts[2],
                               IF Len(parts) >= 3 THEN parts[3] = LitTrue ELSE TRUE))
        ELSE none
    ELSE IF StripPrefix(input, KwBgm) # <<>> THEN
        some(PlayBgm(Remove(StripPrefix(input, KwBgm)[1], Quote)))
    ELSE IF EqIgnoreAsciiCase(input, KwStop) THEN
        some(StopBgm)
    ELSE IF StripPrefix(input, KwTalk) # <<>> THEN
        LET p == Split(StripPrefix(input, KwTalk)[1], "|") IN
        IF Len(p) = 3 THEN some(Dialogue(p[1], p[2], p[3])) ELSE none
    ELSE IF StripPrefix(input, KwBg) # <<>> THEN
        some(LoadBackground(Remove(StripPrefix(input, KwBg)[1], Quote)))
    ELSE IF EqIgnoreAsciiCase(input, KwHelp) THEN
        [cmd |-> <<>>, help |-> TRUE]
    ELSE none

---------------------------------------------------------------------------
(* Entities and the background loaders *)

Idle == <<"I","d","l","e">>
Walk == <<"W","a","l","k">>

\* animation catalogs a skeleton file may declare
Catalogs == { <<>>, << Idle, Walk >> }

\* What one run of load_async finds on disk: whether the atlas parses, whether
\* it has a first page, whether the page's image decodes, whether the skeleton
\* json parses, and the animations the skeleton declares.
FsViews ==
    [atlas : BOOLEAN, page : BOOLEAN, image : BOOLEAN, json : BOOLEAN,
     anims : Catalogs]

\* Path::parent: None for the empty path and for the root
ParentOk(path) == path # <<>> /\ path # << "/" >>

\* struct SpineObject as load_async builds it; src is the thread that built it
SpineObject(tid, path, anims) ==
    [src |-> tid, path |-> path, anims |-> anims,
     anim |-> IF anims = <<>> THEN <<>> ELSE << anims[1] >>,
     loop |-> anims # <<>>,
     position |-> << 0, 0 >>]

\* the step of load_async that returns None, "" when none does
FailStep(view, path) ==
    IF ~view.atlas THEN "atlas"
    ELSE IF ~view.page THEN "page"
    ELSE IF ~ParentOk(path) THEN "parent"
    ELSE IF ~view.image THEN "image"
    ELSE IF ~view.json THEN "json"
    ELSE ""
\* a loader that does not look at the skeleton file's outcome
load_async_lenient(view, path, tid) ==
    IF FailStep(view, path) \notin { "", "json" } THEN <<>>
    ELSE << [obj |-> SpineObject(tid, path, view.anims), anims |-> view.anims] >>

\* SpineObject::load_async: Option<(object, animation names)>
load_async(view, path, tid) ==
    IF FailStep(view, path) # "" THEN <<>>
    ELSE << [obj |-> SpineObject(tid, path, view.anims), anims |-> view.anims] >>
\* a lookup that takes the name in any case
set_animation_any_case(obj, anim_name, loop_anim) ==
    IF \E i \in 1..Len(obj.anims) : EqIgnoreAsciiCase(obj.anims[i], anim_name)
    THEN [obj |-> [obj EXCEPT !.anim = << anim_name >>, !.loop = loop_anim],
          found |-> TRUE]
    ELSE [obj |-> obj, found |-> FALSE]

\* SpineObject::set_animation_by_name: the object afterwards and the bool returned
set_animation_by_name(obj, anim_name, loop_anim) ==
    IF \E i \in 1..Len(obj.anims) : obj.anims[i] = anim_name
    THEN [obj |-> [obj EXCEPT !.anim = << anim_name >>, !.loop = loop_anim],
          found |-> TRUE]
    ELSE [obj |-> obj, found |-> FALSE]

\* what std::fs::read of an audio file may give: Err, or Ok(bytes)
AudioBytes == { "audio", "garbage" }
ReadResults == { <<>> } \cup { << d >> : d \in AudioBytes }

\* rodio::Decoder::new(cursor).is_ok()
Decodable(data) == data = "audio"

\* AudioManager::play: the sink afterwards
play(sink, data) == IF Decodable(data) THEN "playing" ELSE sink
\* a stop that leaves the sink as it is
stop_ignored(sink) == sink

\* AudioManager::stop: the sink afterwards
stop(sink) == "stopped"

---------------------------------------------------------------------------
(* The scheduler *)
\* a pool that keeps one core back instead of two
WorkerCountReserveOne(cores) == IF cores > 1 THEN cores - 1 ELSE 1

\* AefrScheduler::new: worker_count
WorkerCount(cores) == IF cores > 2 THEN cores - 2 ELSE 1

Workers == 1 .. worker_count

---------------------------------------------------------------------------
(* The channel *)
\* a bus that hands the newest command out first
EnqueueFront(q, m) == << m >> \o q

\* Sender::send: the command joins the queue at its tail
Enqueue(q, m) == Append(q, m)

\* Receiver::try_recv: Option<the command at the head>
TryRecv(q) == IF q = <<>> THEN <<>> ELSE << Head(q) >>

\* the queue after a successful try_recv
Dequeue(q) == Tail(q)

\* commands a producer has sent so far
SentBy(prod) == Cardinality({ i \in 1..Len(sent) : sent[i].prod = prod })

\* A command with its history stamp: its arrival number, its producer (0: the
\* console parser, n: background thread n), its number among that producer's
\* commands, and the request it answers (0: none).
Stamp(cmd, prod, req) ==
    [c |-> cmd, id |-> Len(sent) + 1, prod |-> prod, seq |-> SentBy(prod) + 1,
     req |-> req]

\* tx.send(cmd).ok()
Send(cmd, prod, req) ==
    /\ queue' = Enqueue(queue, Stamp(cmd, prod, req))
    /\ sent' = Append(sent, Stamp(cmd, prod, req))

---------------------------------------------------------------------------
(* The state after AefrApp::new *)

\* "AEFR v0.8 Scheduler Online.\nReady for orders."
Greeting ==
    << "A", "E", "F", "R", " ", "v", "0", ".", "8", " ", "S", "c", "h",
       "e", "d", "u", "l", "e", "r", " ", "O", "n", "l", "i", "n", "e",
       ".", "\n", "R", "e", "a", "d", "y", " ", "f", "o", "r", " ", "o",
       "r", "d", "e", "r", "s", "." >>

NameSystem == <<"S","y","s","t","e","m">>
NameAefr == <<"A","E","F","R">>

NoAdvance == [s \in Slots |-> 0]

\* AefrApp::new on a machine reporting `cores` logical cores, with (audio =
\* TRUE) or without a default audio output device
Boot(cores, audio) ==
    /\ logic_cores = cores
    /\ worker_count = WorkerCount(cores)
    /\ current_name = NameSystem
    /\ current_affiliation = NameAefr
    /\ target_chars = Greeting
    /\ visible_count = 0
    /\ type_timer = 0
    /\ characters = [s \in Slots |-> <<>>]
    /\ background = <<>>
    /\ audio_manager = IF audio THEN << "stopped" >> ELSE <<>>
    /\ queue = <<>>
    /\ console_open = FALSE
    /\ console_input = <<>>
    /\ console_logs = << LogLine("Scheduler ready.", 0, 0, <<>>) >>
    /\ threads = {}
    /\ pc = "idle"
    /\ dt = 0
    /\ pending = {}
    /\ working = [w \in 1..WorkerCount(cores) |-> <<>>]
    /\ repaint = FALSE
    /\ sent = <<>>
    /\ applied = <<>>
    /\ drainMark = 0
    /\ drained = <<>>
    /\ spawned = {}
    /\ finished = {}
    /\ advanced = NoAdvance
    /\ painted = {}
    /\ io = {}
    /\ inputs = <<>>
    /\ mesh = {}
    /\ elapsed = 0

hw == << logic_cores, worker_count >>
dialogue == << current_name, current_affiliation, target_chars, visible_count,
              type_timer, elapsed >>
scene == << characters, background, audio_manager >>
console == << console_open, console_input, console_logs >>
frameHist == << drainMark, drained, advanced, painted >>

Occupied == { s \in Slots : characters[s] # <<>> }

---------------------------------------------------------------------------
(* AefrApp::update, step 1: handle_async_events *)

\* update is entered: the drain is about to poll the channel
BeginFrame ==
    /\ pc = "idle"
    /\ pc' = "drain"
    /\ repaint' = FALSE
    /\ drainMark' = Len(sent)
    /\ UNCHANGED << hw, mesh, dialogue, scene, queue, console, threads, dt, pending,
                    working, sent, applied, drained, spawned, finished,
                    advanced, painted, io, inputs >>

\* `while let Ok(cmd) = self.rx.try_recv()` took a command of this kind
Received(kind) ==
    /\ pc = "drain"
    /\ TryRecv(queue) # <<>>
    /\ TryRecv(queue)[1].c.kind = kind

\* the command the drain is applying, and its history stamp
Msg == TryRecv(queue)[1]
Cmd == Msg.c

\* what every arm of the match has in common
Consume ==
    /\ queue' = Dequeue(queue)
    /\ applied' = Append(applied, Msg.id)
    /\ drained' = Append(drained, Msg.id)
    /\ UNCHANGED << hw, mesh, pc, dt, pending, working, repaint, sent, drainMark,
                    advanced, painted, inputs, console_open, console_input >>

\* a thread::spawn for the command being applied
NewThread(kind) ==
    [tid |-> Cardinality(spawned) + 1, kind |-> kind, req |-> Msg.id,
     slot |-> Cmd.slot, path |-> Cmd.text]
\* a request that starts a second thread for the same command
SpawnTwice(kind) ==
    LET twins == { NewThread(kind), [NewThread(kind) EXCEPT !.tid = @ + 1] } IN
    /\ threads' = threads \cup twins
    /\ spawned' = spawned \cup twins

Spawn(kind) ==
    /\ threads' = threads \cup { NewThread(kind) }
    /\ spawned' = spawned \cup { NewThread(kind) }

\* a blocking operation run by the main thread while applying a command
MainIo(ops) == io' = io \cup { [op |-> o, by |-> "main", cmd |-> Cmd.kind] : o \in ops }
\* a Dialogue arm that forgets to reset the typewriter
ApplyDialogueKeepCount ==
    /\ Received("Dialogue")
    /\ current_name' = Cmd.name
    /\ current_affiliation' = Cmd.aff
    /\ target_chars' = Cmd.text
    /\ Consume
    /\ UNCHANGED << visible_count, elapsed, type_timer, scene, console_logs,
                    threads, spawned, finished, io >>

ApplyDialogue ==
    /\ Received("Dialogue")
    /\ current_name' = Cmd.name
    /\ current_affiliation' = Cmd.aff
    /\ target_chars' = Cmd.text
    /\ visible_count' = 0
    /\ elapsed' = 0
    /\ Consume
    /\ UNCHANGED << type_timer, scene, console_logs, threads, spawned, finished, io >>

ApplyLog ==
    /\ Received("Log")
    /\ console_logs' = Append(console_logs, Cmd.msg)
    /\ Consume
    /\ UNCHANGED << dialogue, scene, threads, spawned, finished, io >>

ApplyRequestLoad ==
    /\ Received("RequestLoad")
    /\ console_logs' = Append(console_logs, LogLine("Loading slot {}...", Cmd.slot, 0, <<>>))
    /\ Spawn("load")
    /\ Consume
    /\ UNCHANGED << dialogue, scene, finished, io >>

\* Vec::get_mut(idx).is_some()
InRange(idx) == idx \in Slots
\* a slot that keeps the entity it already holds
StoreIfEmpty(chars, idx, obj) ==
    IF InRange(idx) /\ chars[idx] = <<>>
    THEN [chars EXCEPT ![idx] =
            << [obj EXCEPT !.position = << 200 + idx * 220, 720 >>] >>]
    ELSE chars
\* a store that wraps an index beyond the table round to its start
StoreWrapped(chars, idx, obj) ==
    [chars EXCEPT ![idx % NumSlots] =
        << [obj EXCEPT !.position = << 200 + idx * 220, 720 >>] >>]

\* the LoadSuccess arm: the slot table afterwards
StoreLoaded(chars, idx, obj) ==
    IF InRange(idx)
    THEN [chars EXCEPT ![idx] =
            << [obj EXCEPT !.position = << 200 + idx * 220, 720 >>] >>]
    ELSE chars

ApplyLoadSuccess ==
    /\ Received("LoadSuccess")
    /\ characters' = StoreLoaded(characters, Cmd.slot, Cmd.ent[1])
    /\ console_logs' =
         IF InRange(Cmd.slot)
         THEN Append(console_logs,
                     LogLine("Slot {} Loaded. Anims: {}", Cmd.slot, Len(Cmd.anims), <<>>))
         ELSE console_logs
    /\ Consume
    /\ UNCHANGED << dialogue, background, audio_manager, threads, spawned,
                    finished, io >>

ApplySetAnimation ==
    /\ Received("SetAnimation")
    /\ IF InRange(Cmd.slot) /\ characters[Cmd.slot] # <<>>
       THEN LET r == set_animation_by_name(characters[Cmd.slot][1], Cmd.text, Cmd.flag) IN
            /\ characters' = [characters EXCEPT ![Cmd.slot] = << r.obj >>]
            /\ console_logs' =
                 Append(console_logs,
                        IF r.found
                        THEN LogLine("Slot {} -> {}", Cmd.slot, 0, Cmd.text)
                        ELSE LogLine("Anim not found: {}", 0, 0, Cmd.text))
       ELSE UNCHANGED << characters, console_logs >>
    /\ Consume
    /\ UNCHANGED << dialogue, background, audio_manager, threads, spawned,
                    finished, io >>

\* image::open(&path) runs here, in the drain; opened is whether it gave Ok
ApplyLoadBackground(opened) ==
    /\ Received("LoadBackground")
    /\ MainIo({ "file_read", "image_decode" })
    /\ IF opened
       THEN /\ background' = << Cmd.text >>
            /\ console_logs' = Append(console_logs, LogLine("BG Loaded.", 0, 0, <<>>))
       ELSE UNCHANGED << background, console_logs >>
    /\ Consume
    /\ UNCHANGED << dialogue, characters, audio_manager, threads, spawned, finished >>

ApplyPlayBgm ==
    /\ Received("PlayBgm")
    /\ Spawn("bgm")
    /\ Consume
    /\ UNCHANGED << dialogue, scene, console_logs, finished, io >>

\* mgr.play(data) runs rodio::Decoder::new here, in the drain
ApplyBgmReady ==
    /\ Received("BgmReady")
    /\ IF audio_manager # <<>>
       THEN /\ audio_manager' = << play(audio_manager[1], Cmd.bytes) >>
            /\ console_logs' = Append(console_logs, LogLine("Playing BGM.", 0, 0, <<>>))
            /\ MainIo({ "audio_decode" })
       ELSE UNCHANGED << audio_manager, console_logs, io >>
    /\ Consume
    /\ UNCHANGED << dialogue, characters, background, threads, spawned, finished >>

ApplyStopBgm ==
    /\ Received("StopBgm")
    /\ IF audio_manager # <<>>
       THEN audio_manager' = << stop(audio_manager[1]) >>
       ELSE UNCHANGED audio_manager
    /\ Consume
    /\ UNCHANGED << dialogue, characters, background, console_logs, threads,
                    spawned, finished, io >>
\* a drain that takes one command per frame (if let in place of while let)
DrainOnePerFrame == drained # <<>> \/ TryRecv(queue) = <<>>

\* try_recv gave Err: the while-let loop is left
DrainDone == TryRecv(queue) = <<>>

\* handle_async_events returns; update reads stable_dt
DrainEnd(d) ==
    /\ pc = "drain"
    /\ DrainDone
    /\ pc' = "type"
    /\ dt' = d
    /\ UNCHANGED << hw, mesh, dialogue, scene, queue, console, threads, pending,
                    working, repaint, sent, applied, frameHist, spawned,
                    finished, io, inputs >>

---------------------------------------------------------------------------
(* AefrApp::update, step 2: the typewriter *)

\* the typewriter block on (visible_count, type_timer) for a frame of d ms
TypewriterStep(visible, timer, len, d) ==
    IF visible < len
    THEN IF timer + d > type_speed
         THEN [visible |-> visible + 1, timer |-> 0, repaint |-> TRUE]
         ELSE [visible |-> visible, timer |-> timer + d, repaint |-> FALSE]
    ELSE [visible |-> visible, timer |-> timer, repaint |-> FALSE]

\* the frame time a dialogue has spent revealing, up to len * type_speed
Revealed(sofar, visible, len, d) ==
    IF visible < len
    THEN IF sofar + d < len * type_speed THEN sofar + d ELSE len * type_speed
    ELSE sofar

\* the typewriter block runs, then run_parallel hands the slots to the pool
Typewriter ==
    /\ pc = "type"
    /\ LET r == TypewriterStep(visible_count, type_timer, Len(target_chars), dt) IN
       /\ visible_count' = r.visible
       /\ type_timer' = r.timer
       /\ repaint' = (repaint \/ r.repaint)
    /\ elapsed' = Revealed(elapsed, visible_count, Len(target_chars), dt)
    /\ pending' = Occupied
    /\ pc' = "parallel"
    /\ UNCHANGED << hw, mesh, current_name, current_affiliation, target_chars, scene,
                    queue, console, threads, dt, working, sent, applied,
                    frameHist, spawned, finished, io, inputs >>

---------------------------------------------------------------------------
(* AefrApp::update, step 3: the parallel advance *)

\* par_iter_mut: a free pool thread takes a slot nobody has taken
WorkerTake(w, s) ==
    /\ pc = "parallel"
    /\ s \in pending
    /\ working[w] = <<>>
    /\ working' = [working EXCEPT ![w] = << s >>]
    /\ pending' = pending \ { s }
    /\ UNCHANGED << hw, mesh, dialogue, scene, queue, console, threads, pc, dt,
                    repaint, sent, applied, frameHist, spawned, finished, io,
                    inputs >>

\* char.update_parallel(dt) of the slot the worker holds has run
WorkerFinish(w) ==
    /\ pc = "parallel"
    /\ working[w] # <<>>
    /\ advanced' = [advanced EXCEPT ![working[w][1]] = @ + 1]
    /\ working' = [working EXCEPT ![w] = <<>>]
    /\ UNCHANGED << hw, mesh, dialogue, scene, queue, console, threads, pc, dt,
                    pending, repaint, sent, applied, drainMark, drained,
                    painted, spawned, finished, io, inputs >>
\* a join that waits for the slots to be handed out, not for the workers
JoinEarly == pending = {}

\* pool.install(op) returns only when op, and every item of its for_each, is done
JoinReady == pending = {} /\ \A w \in Workers : working[w] = <<>>

\* run_parallel returns; a repaint is requested when a character is loaded
ParallelDone ==
    /\ pc = "parallel"
    /\ JoinReady
    /\ repaint' = (repaint \/ Occupied # {})
    /\ pc' = "paint"
    /\ UNCHANGED << hw, mesh, dialogue, scene, queue, console, threads, dt, pending,
                    working, sent, applied, frameHist, spawned, finished, io,
                    inputs >>

---------------------------------------------------------------------------
(* AefrApp::update, step 4: drawing *)
\* a colour channel of Spine is a float in [0, 1]: level k stands for
\* k / ColorDen, which f32 holds and multiplies exactly
ColorDen == 2 ^ ColorBits
Levels == 0 .. ColorDen

\* rusty_spine::Color
Color(r, g, b, a) == [r |-> r, g |-> g, b |-> b, a |-> a]
White == Color(ColorDen, ColorDen, ColorDen, ColorDen)

\* `as u8` on an f32: towards zero, saturating
AsU8(num, den) ==
    LET q == num \div den IN
    IF q < 0 THEN 0 ELSE IF q > 255 THEN 255 ELSE q

\* (s_c.x * att_c.x * 255.0) as u8
Channel(s, a) == AsU8(s * a * 255, ColorDen * ColorDen)

\* Color32::from_rgba_premultiplied(r, g, b, a): the four bytes as given
from_rgba_premultiplied(r, g, b, a) == [r |-> r, g |-> g, b |-> b, a |-> a]

\* push_to_mesh: the colour of every vertex it pushes
push_to_mesh(s_c, att_c) ==
    from_rgba_premultiplied(Channel(s_c.r, att_c.r), Channel(s_c.g, att_c.g),
                            Channel(s_c.b, att_c.b), Channel(s_c.a, att_c.a))

\* the background and character layers: every loaded character is painted
PaintTinted(s_c, att_c) ==
    /\ pc = "paint"
    /\ painted' = Occupied
    /\ mesh' = { [slot |-> s, s_c |-> s_c, att_c |-> att_c,
                  color |-> push_to_mesh(s_c, att_c)] : s \in Occupied }
    /\ pc' = "ui"
    /\ UNCHANGED << hw, dialogue, scene, queue, console, threads, dt, pending,
                    working, repaint, sent, applied, drainMark, drained,
                    advanced, spawned, finished, io, inputs >>

\* paint of entities whose slots and attachments are untinted
Paint == PaintTinted(White, White)

\* a click that hurries the typewriter instead of showing the whole text
DrawUiSpeedUp(clicked, cmd) ==
    /\ pc = "ui"
    /\ type_timer' = IF clicked THEN type_speed ELSE type_timer
    /\ console_open' = IF cmd THEN ~console_open ELSE console_open
    /\ pc' = "console"
    /\ UNCHANGED << hw, mesh, current_name, current_affiliation, target_chars,
                    visible_count, scene, queue, console_input, console_logs,
                    threads, dt, pending, working, repaint, sent, applied,
                    frameHist, spawned, finished, io, inputs, elapsed >>

\* the dialogue box (clicked: it was clicked) and the CMD button (cmd: it was)
DrawUi(clicked, cmd) ==
    /\ pc = "ui"
    /\ visible_count' = IF clicked THEN Len(target_chars) ELSE visible_count
    /\ console_open' = IF cmd THEN ~console_open ELSE console_open
    /\ pc' = "console"
    /\ UNCHANGED << hw, mesh, current_name, current_affiliation, target_chars,
                    type_timer, scene, queue, console_input, console_logs,
                    threads, dt, pending, working, repaint, sent, applied,
                    frameHist, spawned, finished, io, inputs, elapsed >>

\* update returns
FrameEnd ==
    /\ pc' = "idle"
    /\ dt' = 0
    /\ drainMark' = 0
    /\ drained' = <<>>
    /\ advanced' = NoAdvance
    /\ painted' = {}
    /\ mesh' = {}

\* the console window is closed, or no line was entered in this frame
ConsoleQuiet ==
    /\ pc = "console"
    /\ FrameEnd
    /\ UNCHANGED << hw, dialogue, scene, queue, console, threads, pending,
                    working, repaint, sent, applied, spawned, finished, io,
                    inputs >>

\* draw_console_window: Enter was pressed on `line`; parse_and_send_command
ParseAndSend(line) ==
    /\ pc = "console"
    /\ console_open
    /\ Len(inputs) < MaxInputs
    /\ inputs' = Append(inputs, line)
    /\ LET input == Trim(line)
           r == ParseCommand(input)
       IN
       IF input = <<>>
       THEN /\ console_input' = line
            /\ UNCHANGED << console_logs, queue, sent >>
       ELSE /\ console_logs' =
                 console_logs \o << LogLine("> {}", 0, 0, input) >>
                   \o (IF r.help
                       THEN << LogLine("Commands: LOAD, ANIM, BGM, BG, TALK", 0, 0, <<>>) >>
                       ELSE <<>>)
            /\ IF r.cmd # <<>>
               THEN Send(r.cmd[1], 0, 0)
               ELSE UNCHANGED << queue, sent >>
            /\ console_input' = <<>>
    /\ FrameEnd
    /\ UNCHANGED << hw, dialogue, scene, console_open, threads, pending,
                    working, repaint, applied, spawned, finished, io >>

---------------------------------------------------------------------------
(* The detached background threads *)

\* a blocking operation run by background thread t
BgIo(t, ops) == io' = io \cup { [op |-> o, by |-> "bg", cmd |-> t.kind] : o \in ops }
\* a loader thread that stores the entity itself and sends only the Log
LoaderThreadDirect(t, view) ==
    /\ t \in threads
    /\ t.kind = "load"
    /\ LET r == load_async(view, t.path, t.tid) IN
       /\ characters' = IF r # <<>> THEN StoreLoaded(characters, t.slot, r[1].obj)
                        ELSE characters
       /\ Send(Log(LogLine(IF r # <<>> THEN "Loaded: {}" ELSE "Load failed: {}",
                           0, 0, t.path)), t.tid, t.req)
       /\ finished' = finished \cup
            { [tid |-> t.tid, req |-> t.req, kind |-> t.kind, ok |-> r # <<>>,
               step |-> FailStep(view, t.path)] }
    /\ threads' = threads \ { t }
    /\ BgIo(t, { "file_read", "image_decode" })
    /\ UNCHANGED << hw, mesh, dialogue, background, audio_manager, console, pc, dt,
                    pending, working, repaint, applied, frameHist, spawned, inputs >>

\* the thread of a RequestLoad runs load_async on what it finds on disk and
\* sends its one completion
LoaderThread(t, view) ==
    /\ t \in threads
    /\ t.kind = "load"
    /\ LET r == load_async(view, t.path, t.tid) IN
       /\ IF r # <<>>
          THEN Send(LoadSuccess(t.slot, r[1].obj, r[1].anims), t.tid, t.req)
          ELSE Send(Log(LogLine("Load failed: {}", 0, 0, t.path)), t.tid, t.req)
       /\ finished' = finished \cup
            { [tid |-> t.tid, req |-> t.req, kind |-> t.kind, ok |-> r # <<>>,
               step |-> FailStep(view, t.path)] }
    /\ threads' = threads \ { t }
    /\ BgIo(t, { "file_read", "image_decode" })
    /\ UNCHANGED << hw, mesh, dialogue, scene, console, pc, dt, pending, working,
                    repaint, applied, frameHist, spawned, inputs >>

\* the thread of a PlayBgm reads the file and sends its one completion
BgmThread(t, read) ==
    /\ t \in threads
    /\ t.kind = "bgm"
    /\ IF read # <<>>
       THEN Send(BgmReady(read[1]), t.tid, t.req)
       ELSE Send(Log(LogLine("Audio read failed.", 0, 0, <<>>)), t.tid, t.req)
    /\ finished' = finished \cup
         { [tid |-> t.tid, req |-> t.req, kind |-> t.kind, ok |-> read # <<>>,
            step |-> IF read # <<>> THEN "" ELSE "read"] }
    /\ threads' = threads \ { t }
    /\ BgIo(t, { "file_read" })
    /\ UNCHANGED << hw, mesh, dialogue, scene, console, pc, dt, pending, working,
                    repaint, applied, frameHist, spawned, inputs >>

---------------------------------------------------------------------------
(* Console lines of the runs *)

\* LOAD 0 a
LineLoadA == <<"L","O","A","D"," ","0"," ","a">>
\* LOAD 1 "b"
LineLoadB == <<"L","O","A","D"," ","1"," ","\"","b","\"">>
\* BGM m
LineBgm == <<"B","G","M"," ","m">>
\* STOP
LineStop == <<"S","T","O","P">>
\* TALK A|F|Hi
LineTalk == <<"T","A","L","K"," ","A","|","F","|","H","i">>
\* BG g
LineBg == <<"B","G"," ","g">>
\* ANIM 0 Walk false
LineAnim == <<"A","N","I","M"," ","0"," ","W","a","l","k"," ","f","a","l","s","e">>

---------------------------------------------------------------------------
(* The specification: every command kind on the bus.  The machine reports 4  *)
(* cores, with or without an audio device.  The user opens the console in the first   *)
(* frame and leaves it open, and clicks the dialogue box in every frame, so  *)
(* the typewriter is at rest.  A load finds a complete asset or no atlas.    *)
(* (4 cores is also what available_parallelism().unwrap_or(4) falls back to.)*)

Lines == { LineLoadA, LineBgm, LineStop, LineTalk, LineBg, LineAnim }

Views ==
    { v \in FsViews : v.anims # <<>> /\ v.page /\ v.image /\ v.json }

Init == \E audio \in BOOLEAN : Boot(4, audio)

Next ==
    \/ BeginFrame
    \/ ApplyDialogue
    \/ ApplyLog
    \/ ApplyRequestLoad
    \/ ApplyLoadSuccess
    \/ ApplySetAnimation
    \/ \E opened \in BOOLEAN : ApplyLoadBackground(opened)
    \/ ApplyPlayBgm
    \/ ApplyBgmReady
    \/ ApplyStopBgm
    \/ DrainEnd(40)
    \/ Typewriter
    \/ \E w \in Workers, s \in Slots : WorkerTake(w, s)
    \/ \E w \in Workers : WorkerFinish(w)
    \/ ParallelDone
    \/ Paint
    \/ DrawUi(TRUE, ~console_open)
    \/ ConsoleQuiet
    \/ \E line \in Lines : ParseAndSend(line)
    \/ \E t \in threads, view \in Views : LoaderThread(t, view)
    \/ \E t \in threads, read \in ReadResults : BgmThread(t, read)

Spec == Init /\ [][Next]_vars

---------------------------------------------------------------------------
(* The loads: LOAD lines only, with every outcome of load_async on an atlas *)
(* that names its page and a skeleton that declares animations.              *)

LinesLoad == { LineLoadA, LineLoadB }

ViewsLoad == { v \in FsViews : v.anims # <<>> /\ v.page }

NextLoad ==
    \/ BeginFrame
    \/ ApplyLog
    \/ ApplyRequestLoad
    \/ ApplyLoadSuccess
    \/ DrainEnd(40)
    \/ Typewriter
    \/ \E w \in Workers, s \in Slots : WorkerTake(w, s)
    \/ \E w \in Workers : WorkerFinish(w)
    \/ ParallelDone
    \/ Paint
    \/ DrawUi(TRUE, ~console_open)
    \/ ConsoleQuiet
    \/ \E line \in LinesLoad : ParseAndSend(line)
    \/ \E t \in threads, view \in ViewsLoad : LoaderThread(t, view)

InitLoad == Boot(4, TRUE)

SpecLoad == InitLoad /\ [][NextLoad]_vars

---------------------------------------------------------------------------
(* Requests and their answers, with the frame loop and the threads running   *)
(* on: a LOAD and a BGM line, each thread finding its file or not.           *)

LinesLive == { LineLoadA, LineBgm }

\* the steps of the frame loop and of the pool it waits for
FrameStep ==
    \/ BeginFrame
    \/ ApplyLog
    \/ ApplyRequestLoad
    \/ ApplyLoadSuccess
    \/ ApplyPlayBgm
    \/ ApplyBgmReady
    \/ DrainEnd(40)
    \/ Typewriter
    \/ \E w \in Workers, s \in Slots : WorkerTake(w, s)
    \/ \E w \in Workers : WorkerFinish(w)
    \/ ParallelDone
    \/ Paint
    \/ DrawUi(TRUE, ~console_open)
    \/ ConsoleQuiet
    \/ \E line \in LinesLive : ParseAndSend(line)

\* a background thread finishes its I/O and sends
ThreadStep ==
    \/ \E t \in threads, view \in Views : LoaderThread(t, view)
    \/ \E t \in threads, read \in ReadResults : BgmThread(t, read)

NextLive == FrameStep \/ ThreadStep

\* frames keep running and every thread's I/O finishes
SpecLive ==
    InitLoad /\ [][NextLive]_vars /\ WF_vars(FrameStep) /\ WF_vars(ThreadStep)

---------------------------------------------------------------------------
(* The typewriter: TALK lines, frames of 10, 40 and 70 ms, the dialogue box  *)
(* clicked or not.                                                           *)

\* frame times, in ms
DtChoices == { 10, 40, 70 }

\* TALK B|G|Hello
LineTalkLong == <<"T","A","L","K"," ","B","|","G","|","H","e","l","l","o">>

LinesType == { LineTalk, LineTalkLong }

NextType ==
    \/ BeginFrame
    \/ ApplyDialogue
    \/ \E d \in DtChoices : DrainEnd(d)
    \/ Typewriter
    \/ ParallelDone
    \/ Paint
    \/ \E clicked \in BOOLEAN : DrawUi(clicked, ~console_open)
    \/ ConsoleQuiet
    \/ \E line \in LinesType : ParseAndSend(line)

SpecType == InitLoad /\ [][NextType]_vars

---------------------------------------------------------------------------
(* The animations: a LOAD that finds its files or not, and ANIM lines that   *)
(* name an animation of the catalog, misspell its case, or address an empty  *)
(* or an absent slot.                                                        *)

\* ANIM 0 walk
LineAnimLower == <<"A","N","I","M"," ","0"," ","w","a","l","k">>
\* ANIM 1 Walk
LineAnimEmpty == <<"A","N","I","M"," ","1"," ","W","a","l","k">>
\* ANIM 7 Walk
LineAnimFar == <<"A","N","I","M"," ","7"," ","W","a","l","k">>

LinesAnim == { LineLoadA, LineAnim, LineAnimLower, LineAnimEmpty, LineAnimFar }

NextAnim ==
    \/ BeginFrame
    \/ ApplyLog
    \/ ApplyRequestLoad
    \/ ApplyLoadSuccess
    \/ ApplySetAnimation
    \/ DrainEnd(40)
    \/ Typewriter
    \/ \E w \in Workers, s \in Slots : WorkerTake(w, s)
    \/ \E w \in Workers : WorkerFinish(w)
    \/ ParallelDone
    \/ Paint
    \/ DrawUi(TRUE, ~console_open)
    \/ ConsoleQuiet
    \/ \E line \in LinesAnim : ParseAndSend(line)
    \/ \E t \in threads, view \in Views : LoaderThread(t, view)

SpecAnim == InitLoad /\ [][NextAnim]_vars

---------------------------------------------------------------------------
(* The keywords: every console command with its keyword in upper case, in    *)
(* lower case, and one in mixed case.                                        *)

\* HELP
LineHelp == <<"H","E","L","P">>
\* Load 0 a
LineLoadMixed == <<"L","o","a","d"," ","0"," ","a">>

\* u8::to_ascii_uppercase
ToAsciiUpper(c) ==
    IF \E i \in 1..26 : Lower[i] = c
    THEN Upper[CHOOSE i \in 1..26 : Lower[i] = c]
    ELSE c

\* the keyword of a line ends before its first space
KeywordEnd(line) ==
    IF FirstIndex(line, " ") = 0 THEN Len(line) ELSE FirstIndex(line, " ") - 1

\* the line with its keyword in lower case, in upper case
KeywordLower(line) ==
    [i \in 1..Len(line) |->
        IF i <= KeywordEnd(line) THEN ToAsciiLower(line[i]) ELSE line[i]]
KeywordUpper(line) ==
    [i \in 1..Len(line) |->
        IF i <= KeywordEnd(line) THEN ToAsciiUpper(line[i]) ELSE line[i]]

LinesCase ==
    LET upper == Lines \cup { LineHelp } IN
    upper \cup { KeywordLower(l) : l \in upper } \cup { LineLoadMixed }

NextCase ==
    \/ BeginFrame
    \/ ApplyDialogue
    \/ ApplyLog
    \/ ApplyRequestLoad
    \/ ApplyLoadSuccess
    \/ ApplySetAnimation
    \/ \E opened \in BOOLEAN : ApplyLoadBackground(opened)
    \/ ApplyPlayBgm
    \/ ApplyBgmReady
    \/ ApplyStopBgm
    \/ DrainEnd(40)
    \/ Typewriter
    \/ \E w \in Workers, s \in Slots : WorkerTake(w, s)
    \/ \E w \in Workers : WorkerFinish(w)
    \/ ParallelDone
    \/ Paint
    \/ DrawUi(TRUE, ~console_open)
    \/ ConsoleQuiet
    \/ \E line \in LinesCase : ParseAndSend(line)
    \/ \E t \in threads, view \in Views : LoaderThread(t, view)
    \/ \E t \in threads, read \in ReadResults : BgmThread(t, read)

SpecCase == InitLoad /\ [][NextCase]_vars

---------------------------------------------------------------------------
(* The pool: machines of 1 to MaxCores logical cores, or one that cannot     *)
(* tell, and a LOAD that gives the pool a slot to advance.                   *)

\* available_parallelism().map(|n| n.get()).unwrap_or(4)
LogicCores(avail) == IF avail = <<>> THEN 4 ELSE avail[1]

Parallelism == { <<>> } \cup { << n >> : n \in 1..MaxCores }

InitCores == \E avail \in Parallelism : Boot(LogicCores(avail), TRUE)

NextCores ==
    \/ BeginFrame
    \/ ApplyLog
    \/ ApplyRequestLoad
    \/ ApplyLoadSuccess
    \/ DrainEnd(40)
    \/ Typewriter
    \/ \E w \in Workers, s \in Slots : WorkerTake(w, s)
    \/ \E w \in Workers : WorkerFinish(w)
    \/ ParallelDone
    \/ Paint
    \/ DrawUi(TRUE, ~console_open)
    \/ ConsoleQuiet
    \/ ParseAndSend(LineLoadA)
    \/ \E t \in threads, view \in Views : LoaderThread(t, view)

SpecCores == InitCores /\ [][NextCores]_vars

---------------------------------------------------------------------------
(* The paint: a character loaded into slot 0 and painted with every tint of  *)
(* its slot and of its attachment: red and alpha at every level, green as    *)
(* red, blue full.                                                           *)

Tints == { Color(x, x, ColorDen, y) : x, y \in Levels }

ViewsOk == { v \in Views : v.atlas }

NextPaint ==
    \/ BeginFrame
    \/ ApplyRequestLoad
    \/ ApplyLoadSuccess
    \/ DrainEnd(40)
    \/ Typewriter
    \/ \E w \in Workers, s \in Slots : WorkerTake(w, s)
    \/ \E w \in Workers : WorkerFinish(w)
    \/ ParallelDone
    \/ \E s_c, att_c \in Tints : PaintTinted(s_c, att_c)
    \/ DrawUi(TRUE, ~console_open)
    \/ ConsoleQuiet
    \/ ParseAndSend(LineLoadA)
    \/ \E t \in threads, view \in ViewsOk : LoaderThread(t, view)

SpecPaint == InitLoad /\ [][NextPaint]_vars

---------------------------------------------------------------------------
(* The slot table: LOAD lines for slot 0, for the first index beyond the     *)
(* table and for one further out, each finding its files or not.             *)

\* LOAD 5 a
LineLoadEdge == <<"L","O","A","D"," ","5"," ","a">>
\* LOAD 7 a
LineLoadFar == <<"L","O","A","D"," ","7"," ","a">>

LinesSlots == { LineLoadA, LineLoadEdge, LineLoadFar }

NextSlots ==
    \/ BeginFrame
    \/ ApplyLog
    \/ ApplyRequestLoad
    \/ ApplyLoadSuccess
    \/ DrainEnd(40)
    \/ Typewriter
    \/ \E w \in Workers, s \in Slots : WorkerTake(w, s)
    \/ \E w \in Workers : WorkerFinish(w)
    \/ ParallelDone
    \/ Paint
    \/ DrawUi(TRUE, ~console_open)
    \/ ConsoleQuiet
    \/ \E line \in LinesSlots : ParseAndSend(line)
    \/ \E t \in threads, view \in Views : LoaderThread(t, view)

SpecSlots == InitLoad /\ [][NextSlots]_vars

---------------------------------------------------------------------------
(* History helpers *)

\* the stamped command with arrival number id
Sent(id) == sent[id]

\* positions of `applied`
Applied == 1 .. Len(applied)

\* the stamped command applied at position i
AppliedAt(i) == sent[applied[i]]

InFrame == pc \in { "type", "parallel", "paint", "ui", "console" }

\* commands that were queued when the running drain began
QueuedAtBegin == drainMark - (Len(applied) - Len(drained))

---------------------------------------------------------------------------
(* C1 *)

\* C1: once a frame's drain has returned, every command that was queued when
\* the drain began has been applied, in queue order, ahead of anything that
\* arrived later, and none of them is still queued; and a drain whose poll
\* finds the queue empty can return at once (it does not wait).
C1_DrainAppliesAllQueued ==
    /\ InFrame =>
         /\ QueuedAtBegin >= 0
         /\ Len(drained) >= QueuedAtBegin
         /\ \A k \in 1..QueuedAtBegin :
               drained[k] = drainMark - QueuedAtBegin + k
         /\ \A k \in 1..Len(queue) : queue[k].id > drainMark
    /\ (pc = "drain" /\ queue = <<>>) => ENABLED DrainEnd(40)

\* a drain has returned that began with two commands queued and applied a
\* third one that arrived while it ran
C1_Witness ==
    /\ pc = "type"
    /\ QueuedAtBegin >= 2
    /\ Len(drained) > QueuedAtBegin

---------------------------------------------------------------------------
(* C2 *)

\* C2: commands of one producer are applied in the order that producer sent
\* them, and the consumer takes the commands in their arrival order whatever
\* their kind (no kind overtakes another).
C2_FifoPerProducer ==
    /\ \A i, j \in Applied :
          (i < j /\ AppliedAt(i).prod = AppliedAt(j).prod)
             => AppliedAt(i).seq < AppliedAt(j).seq
    /\ \A i \in Applied : applied[i] = i

\* two commands of the console were applied in order, and the completions of
\* two background threads were applied in the reverse of their spawn order
C2_Witness ==
    /\ \E i, j \in Applied :
          /\ i < j
          /\ AppliedAt(i).prod = 0 /\ AppliedAt(j).prod = 0
          /\ AppliedAt(i).c.kind # AppliedAt(j).c.kind
    /\ \E i, j \in Applied :
          /\ i < j
          /\ AppliedAt(j).prod > 0
          /\ AppliedAt(i).prod > AppliedAt(j).prod

---------------------------------------------------------------------------
(* C3 *)

\* C3: no blocking file read, image decode or audio decode is run by the main
\* thread, for any command kind.
C3_NoBlockingOnMain == \A e \in io : e.by # "main"

---------------------------------------------------------------------------
(* C8 *)

\* the state C8 names: slot table, speaker, affiliation, target text,
\* background, audio playback
Owned ==
    << characters, current_name, current_affiliation, target_chars, background,
       audio_manager >>

\* the step is the drain applying the command at the head of the queue
DrainApplies ==
    /\ pc = "drain" /\ pc' = "drain"
    /\ queue # <<>>
    /\ queue' = Tail(queue)
    /\ applied' = Append(applied, Head(queue).id)

\* the step is a background thread ending
ThreadEnds == finished' # finished

\* the step is parse_and_send_command
ParserRuns == inputs' # inputs

\* the step adds at most `most` commands at the tail of the queue and removes none
OnlyEnqueues(most) ==
    /\ Len(queue') \in Len(queue) .. (Len(queue) + most)
    /\ SubSeq(queue', 1, Len(queue)) = queue

\* C8: the slot table, the speaker, affiliation and target text, the
\* background and the audio state change only in a step of the drain that
\* applies a command taken from the bus; a background thread changes nothing
\* of the application but the queue, to which it adds its one command; the
\* parser changes only the console log, the input line and the queue.
C8_OnlyDrainMutates ==
    [][ /\ (Owned' # Owned) => DrainApplies
        /\ ThreadEnds =>
             /\ OnlyEnqueues(1) /\ Len(queue') = Len(queue) + 1
             /\ UNCHANGED << Owned, dialogue, console, pc, pending, working >>
        /\ ParserRuns =>
             /\ OnlyEnqueues(1)
             /\ UNCHANGED << Owned, dialogue, console_open, threads, pending, working >>
      ]_vars

\* a loader thread has ended, the parser has run, and commands they enqueued
\* have changed the slot table and the dialogue
C8_Witness ==
    /\ \E f \in finished : f.kind = "load" /\ f.ok
    /\ characters[0] # <<>>
    /\ target_chars # Greeting
    /\ Len(inputs) = 2

---------------------------------------------------------------------------
(* C9 *)

\* positions of `applied` that decide the audio state: a StopBgm, or a
\* BgmReady whose bytes decode
AudioDeciders ==
    { i \in Applied :
        \/ AppliedAt(i).c.kind = "StopBgm"
        \/ AppliedAt(i).c.kind = "BgmReady" /\ Decodable(AppliedAt(i).c.bytes) }

LastAudioDecider == CHOOSE i \in AudioDeciders : \A j \in AudioDeciders : j <= i

\* C9: with an audio device, the audio state is the one set by the last
\* StopBgm or decodable BgmReady applied, in whatever order they came: stopped
\* after a StopBgm, playing after a BgmReady.
C9_LastAudioCommandWins ==
    (audio_manager # <<>> /\ AudioDeciders # {}) =>
        audio_manager[1] =
            IF AppliedAt(LastAudioDecider).c.kind = "StopBgm"
            THEN "stopped" ELSE "playing"

\* a PlayBgm was sent, then a StopBgm; the stop was applied, and after it the
\* BgmReady answering that PlayBgm, which started playback
C9_Witness ==
    /\ audio_manager = << "playing" >>
    /\ \E i, j \in Applied :
          /\ i < j
          /\ j = Len(applied)
          /\ AppliedAt(i).c.kind = "StopBgm"
          /\ AppliedAt(j).c.kind = "BgmReady"
          /\ Sent(AppliedAt(j).req).c.kind = "PlayBgm"
          /\ AppliedAt(j).req < AppliedAt(i).id

---------------------------------------------------------------------------
(* C4 *)

\* C4: when painting begins, and while the frame paints and draws its UI, no
\* slot is left to hand out, no worker is advancing anything, and every
\* occupied slot has been advanced exactly once in this frame (an empty slot
\* never); nothing is painted before that; no two workers ever hold the same
\* slot, and a slot a worker holds has not been advanced yet in this frame.
C4_AdvanceBeforePaint ==
    /\ pc \in { "paint", "ui", "console" } =>
         /\ pending = {}
         /\ \A w \in Workers : working[w] = <<>>
         /\ \A s \in Slots : advanced[s] = IF s \in Occupied THEN 1 ELSE 0
    /\ painted # {} => pc \in { "ui", "console" }
    /\ \A w1, w2 \in Workers :
          (w1 # w2 /\ working[w1] # <<>>) => working[w1] # working[w2]
    /\ \A w \in Workers :
          working[w] # <<>> => (pc = "parallel" /\ advanced[working[w][1]] = 0)
    /\ \A s \in Slots : advanced[s] <= 1

\* painting is about to begin in a frame that advanced two characters on a
\* pool of two workers
C4_Witness ==
    /\ pc = "paint"
    /\ worker_count = 2
    /\ Cardinality(Occupied) = 2
    /\ \A s \in Occupied : advanced[s] = 1

---------------------------------------------------------------------------
(* C5 *)

\* positions of `applied` holding a LoadSuccess for slot s
LoadsApplied(s) ==
    { i \in Applied :
        AppliedAt(i).c.kind = "LoadSuccess" /\ AppliedAt(i).c.slot = s }

LastLoadApplied(s) ==
    CHOOSE i \in LoadsApplied(s) : \A j \in LoadsApplied(s) : j <= i

\* C5: a slot holds the entity of the LoadSuccess applied last for it,
\* whichever request that answers (an entity applied earlier is in no slot),
\* and is empty when none was applied; no load is cancelled: a thread once
\* spawned runs until it has sent its completion.
C5_LastLoadSuccessWins ==
    /\ \A s \in Slots :
          IF LoadsApplied(s) = {}
          THEN characters[s] = <<>>
          ELSE /\ characters[s] # <<>>
               /\ characters[s][1].src = AppliedAt(LastLoadApplied(s)).prod
    /\ \A t \in spawned : t \in threads \/ \E f \in finished : f.tid = t.tid

\* two loads of slot 0 both succeeded; the later request's LoadSuccess was
\* applied first and the slot holds the entity of the earlier request
C5_Witness ==
    \E i, j \in LoadsApplied(0) :
        /\ i < j
        /\ AppliedAt(i).req > AppliedAt(j).req
        /\ characters[0] # <<>>
        /\ characters[0][1].src = AppliedAt(j).prod

---------------------------------------------------------------------------
(* C6 *)

\* arrival numbers of the commands sent in answer to request req
Answers(req) == { i \in 1..Len(sent) : sent[i].req = req }

\* the thread record of a finished thread
ThreadOf(f) == CHOOSE t \in spawned : t.tid = f.tid

\* load threads whose load_async failed at some step
FailedLoads == { f \in finished : f.kind = "load" /\ f.step # "" }

\* C6: a load that fails at any step is answered by exactly one command, the
\* Log 'Load failed: <path>', and never by a LoadSuccess; applying a Log
\* leaves the slot table unchanged; and an entity in the slot of a failed load
\* is advanced once and painted in every frame.
C6_FailedLoadLeavesSlot ==
    /\ [](\A f \in FailedLoads :
            /\ Cardinality(Answers(f.req)) = 1
            /\ \A i \in Answers(f.req) :
                  sent[i].c = Log(LogLine("Load failed: {}", 0, 0, ThreadOf(f).path))
            /\ (pc \in { "ui", "console" } /\ ThreadOf(f).slot \in Occupied) =>
                  /\ advanced[ThreadOf(f).slot] = 1
                  /\ ThreadOf(f).slot \in painted)
    /\ [][(DrainApplies /\ Head(queue).c.kind = "Log") => characters' = characters]_vars

\* a reload of an occupied slot failed at the skeleton file; its Log was
\* applied, and the entity loaded before is still there and was painted
C6_Witness ==
    \E f \in FailedLoads :
        /\ f.step = "json"
        /\ \E i \in Applied : AppliedAt(i).req = f.req
        /\ ThreadOf(f).slot \in Occupied
        /\ pc = "ui"
        /\ ThreadOf(f).slot \in painted

---------------------------------------------------------------------------
(* C7 *)

\* threads spawned for the command with arrival number id
ThreadsFor(id) == { t \in spawned : t.req = id }

Ended(t) == \E f \in finished : f.tid = t.tid

\* the completion a thread of this kind may send
IsCompletion(kind, cmd, path) ==
    IF kind = "load"
    THEN \/ cmd.kind = "LoadSuccess"
         \/ cmd = Log(LogLine("Load failed: {}", 0, 0, path))
    ELSE \/ cmd.kind = "BgmReady"
         \/ cmd = Log(LogLine("Audio read failed.", 0, 0, <<>>))

\* every RequestLoad and PlayBgm applied has exactly one thread, and a thread
\* has sent nothing while it runs and exactly one completion once it ended
AnsweredOnce ==
    /\ \A i \in Applied :
          AppliedAt(i).c.kind \in { "RequestLoad", "PlayBgm" } =>
             Cardinality(ThreadsFor(applied[i])) = 1
    /\ \A t \in spawned :
          /\ Sent(t.req).c.kind = IF t.kind = "load" THEN "RequestLoad" ELSE "PlayBgm"
          /\ Cardinality(Answers(t.req)) = IF Ended(t) THEN 1 ELSE 0
          /\ \A i \in Answers(t.req) :
                /\ sent[i].prod = t.tid
                /\ IsCompletion(t.kind, sent[i].c, t.path)

LoadedLine(slot) ==
    \E k \in 1..Len(console_logs) :
        /\ console_logs[k].fmt = "Slot {} Loaded. Anims: {}"
        /\ console_logs[k].n = slot

\* every thread started so far has its completion applied, and every
\* successful load of slot 0 so far shows in slot 0 and in the console log
Settled ==
    /\ \A t \in spawned : \E i \in Applied : AppliedAt(i).req = t.req
    /\ \A f \in finished :
          (f.kind = "load" /\ f.ok /\ ThreadOf(f).slot = 0) =>
             (characters[0] # <<>> /\ LoadedLine(0))

\* C7: every RequestLoad and PlayBgm consumed spawns exactly one thread, which
\* sends exactly one completion (LoadSuccess or Log 'Load failed', BgmReady or
\* Log 'Audio read failed.') and nothing else; with the threads finishing and
\* the frames running, a request consumed is eventually answered and the
\* answer applied, and a successful load of slot 0 leaves slot 0 non-empty
\* with a 'Loaded' line in the console log.  (The threads started and ended
\* only grow, so "settled again and again" says each of them is eventually
\* settled.)
C7_AnsweredExactlyOnce == []AnsweredOnce /\ []<>Settled

\* a LOAD 0 succeeded and was applied, and a BGM was answered and applied
C7_Witness ==
    /\ characters[0] # <<>>
    /\ LoadedLine(0)
    /\ \E i \in Applied : AppliedAt(i).c.kind = "BgmReady"
    /\ threads = {}

---------------------------------------------------------------------------
(* C10 *)

\* the typewriter as C10 states it: while the timer exceeds the interval,
\* reveal one more character (up to len) and subtract the interval
RECURSIVE WhileReveal(_, _, _)
WhileReveal(visible, timer, len) ==
    IF timer > type_speed /\ visible < len
    THEN WhileReveal(visible + 1, timer - type_speed, len)
    ELSE [visible |-> visible, timer |-> timer]

\* C10: a frame of the typewriter while Revealing adds dt to the timer, then
\* reveals one character per interval the timer exceeds, subtracting the
\* interval each time, and carries the remainder to the next frame.
C10_CatchUpReveal ==
    [][ (pc = "type" /\ pc' = "parallel" /\ visible_count < Len(target_chars)) =>
          LET r == WhileReveal(visible_count, type_timer + dt, Len(target_chars)) IN
          /\ visible_count' = r.visible
          /\ type_timer' = r.timer
      ]_vars

---------------------------------------------------------------------------
(* C11 *)

\* a step that applies a Dialogue command
DialogueApplied == DrainApplies /\ Head(queue).c.kind = "Dialogue"

\* C11: while one dialogue is shown, visible_count equals len(target) as soon
\* as the frame time it has spent revealing is at least len(target) times the
\* reveal interval, and visible_count never decreases from one frame to the
\* next unless a new Dialogue is applied.
C11_RevealedInTime ==
    /\ [](elapsed >= Len(target_chars) * type_speed =>
             visible_count = Len(target_chars))
    /\ [][~DialogueApplied => visible_count' >= visible_count]_vars

---------------------------------------------------------------------------
(* C12 *)

\* positions of `applied` that hold a Dialogue
DialoguesApplied == { i \in Applied : AppliedAt(i).c.kind = "Dialogue" }

\* C12: visible_count never exceeds the length of the target text, whatever
\* the interleaving of frames, clicks on the dialogue box and Dialogue
\* commands that replace the target with a shorter or a longer one.
C12_VisibleWithinTarget == visible_count <= Len(target_chars)

\* a Dialogue replaced a longer Dialogue's text, and a click then showed the
\* whole of the shorter text before its reveal time had passed
C12_Witness ==
    /\ \E i, j \in DialoguesApplied :
          /\ i < j
          /\ Len(AppliedAt(i).c.text) > Len(AppliedAt(j).c.text)
          /\ target_chars = AppliedAt(j).c.text
    /\ visible_count = Len(target_chars)
    /\ elapsed < Len(target_chars) * type_speed

---------------------------------------------------------------------------
(* C13 *)

\* a step of the UI pass in which the dialogue box was clicked
Clicked == \E cmd \in BOOLEAN : DrawUi(TRUE, cmd)

\* C13: a click on the dialogue box while Revealing sets visible_count to
\* len(target) in that frame's UI pass, whatever the reveal timer holds, by
\* assigning it: the timer and the target text are left as they were.
C13_ClickSkipsToEnd ==
    [][ (Clicked /\ visible_count < Len(target_chars)) =>
          /\ visible_count' = Len(target_chars)
          /\ type_timer' = type_timer
          /\ target_chars' = target_chars
          /\ pc' = "console"
      ]_vars

\* a text of several characters shows whole after 10 ms of revealing, with
\* the timer part-way to the interval: a click, not the typewriter, showed it
C13_Witness ==
    /\ pc = "console"
    /\ Len(target_chars) > 1
    /\ visible_count = Len(target_chars)
    /\ elapsed = 10
    /\ type_timer \in 1 .. (type_speed - 1)

---------------------------------------------------------------------------
(* C14 *)

\* the three fields of the TALK lines entered: name, affiliation, content
TalkFields(line) ==
    IF line = LineTalk
    THEN << <<"A">>, <<"F">>, <<"H","i">> >>
    ELSE << <<"B">>, <<"G">>, <<"H","e","l","l","o">> >>

\* C14: a TALK line with three pipe-separated fields enqueues exactly one
\* command, a Dialogue with those fields; and applying a Dialogue sets speaker,
\* affiliation and target text to its fields and visible_count to 0, whatever
\* the dialogue state was.
C14_TalkSetsDialogue ==
    /\ [][ (ParserRuns /\ inputs'[Len(inputs')] \in { LineTalk, LineTalkLong }) =>
             LET f == TalkFields(inputs'[Len(inputs')]) IN
             /\ Len(sent') = Len(sent) + 1
             /\ queue' = Append(queue, sent'[Len(sent')])
             /\ sent'[Len(sent')].c.kind = "Dialogue"
             /\ sent'[Len(sent')].c.name = f[1]
             /\ sent'[Len(sent')].c.aff = f[2]
             /\ sent'[Len(sent')].c.text = f[3]
         ]_vars
    /\ [][ DialogueApplied =>
             /\ current_name' = Head(queue).c.name
             /\ current_affiliation' = Head(queue).c.aff
             /\ target_chars' = Head(queue).c.text
             /\ visible_count' = 0
         ]_vars

\* `TALK B|G|Hello` then `TALK A|F|Hi` were entered and applied: the second
\* has just replaced the first, shown in part or whole, and nothing of it shows
C14_Witness ==
    /\ pc = "drain"
    /\ Len(applied) = 2
    /\ drained # <<>>
    /\ AppliedAt(1).c.text = <<"H","e","l","l","o">>
    /\ current_name = <<"A">>
    /\ current_affiliation = <<"F">>
    /\ target_chars = <<"H","i">>
    /\ visible_count = 0

---------------------------------------------------------------------------
(* C15 *)

\* slot holds an entity
Holds(slot) == slot \in Slots /\ characters[slot] # <<>>

\* the catalog of the entity in slot lists exactly this name
InCatalog(slot, name) ==
    \E k \in 1..Len(characters[slot][1].anims) : characters[slot][1].anims[k] = name

\* C15: applying SetAnimation{slot, name, loop} changes the animation of the
\* slot only if the slot holds an entity whose catalog lists exactly that
\* name, and then logs 'Slot <slot> -> <name>'; if the name is not listed the
\* animation stays and 'Anim not found: <name>' is logged; if the slot is
\* empty or out of range nothing changes and nothing is logged.
C15_SetAnimation ==
    [][ (DrainApplies /\ Head(queue).c.kind = "SetAnimation") =>
          LET c == Head(queue).c IN
          /\ UNCHANGED << current_name, current_affiliation, target_chars,
                          visible_count, background, audio_manager, threads >>
          /\ IF Holds(c.slot) /\ InCatalog(c.slot, c.text)
             THEN /\ characters' =
                       [characters EXCEPT ![c.slot] =
                          << [characters[c.slot][1] EXCEPT !.anim = << c.text >>,
                                                           !.loop = c.flag] >>]
                  /\ console_logs' =
                       Append(console_logs, LogLine("Slot {} -> {}", c.slot, 0, c.text))
             ELSE /\ characters' = characters
                  /\ console_logs' =
                       IF Holds(c.slot)
                       THEN Append(console_logs,
                                   LogLine("Anim not found: {}", 0, 0, c.text))
                       ELSE console_logs
      ]_vars

\* `ANIM 0 Walk false` was applied to the entity loaded in slot 0
C15_Witness ==
    /\ Holds(0)
    /\ characters[0][1].anim = << Walk >>
    /\ characters[0][1].loop = FALSE
    /\ \E k \in 1..Len(console_logs) :
          console_logs[k] = LogLine("Slot {} -> {}", 0, 0, Walk)

---------------------------------------------------------------------------
(* C16 *)

\* C16: when the image of a LoadBackground cannot be opened or decoded, the
\* background is left as it is and one line reporting the failure is appended
\* to the console log.
C16_BackgroundFailureLogged ==
    [][ ApplyLoadBackground(FALSE) =>
          /\ background' = background
          /\ Len(console_logs') = Len(console_logs) + 1
      ]_vars

---------------------------------------------------------------------------
(* C17 *)

\* C17: applying a BgmReady whose bytes do not decode as audio starts no
\* playback and appends no line to the console log.
C17_BadAudioSilent ==
    [][ (DrainApplies /\ Head(queue).c.kind = "BgmReady"
           /\ ~Decodable(Head(queue).c.bytes)) =>
          /\ audio_manager' = audio_manager
          /\ console_logs' = console_logs
      ]_vars

---------------------------------------------------------------------------
(* C18 *)

\* commands a thread sent in answer to a PlayBgm
BgmAnswers ==
    { i \in 1..Len(sent) : sent[i].req # 0 /\ Sent(sent[i].req).c.kind = "PlayBgm" }

\* C18: without an audio device the application starts, and PlayBgm, BgmReady
\* and StopBgm are no-ops: nothing plays, and no request puts a command on
\* the queue or a line in the console log.
C18_SilentModeNoOps ==
    audio_manager = <<>> =>
        /\ BgmAnswers = {}
        /\ \A k \in 1..Len(console_logs) : console_logs[k].fmt # "Audio read failed."

---------------------------------------------------------------------------
(* C19 *)

\* C19: a console line has the effect of the same line with its keyword in
\* upper case, whatever the case its keyword is written in: the same command
\* is enqueued (or none), and the same lines are added to the console log.
C19_KeywordsAnyCase ==
    [][ ParserRuns =>
          LET line == inputs'[Len(inputs')]
              want == ParseCommand(Trim(KeywordUpper(line)))
          IN
          /\ IF want.cmd = <<>>
             THEN sent' = sent
             ELSE /\ Len(sent') = Len(sent) + 1
                  /\ sent'[Len(sent')].c = want.cmd[1]
          /\ Len(console_logs') =
               Len(console_logs) + 1 + (IF want.help THEN 1 ELSE 0)
      ]_vars

---------------------------------------------------------------------------
(* C20 *)

Max(a, b) == IF a >= b THEN a ELSE b

\* C20: for every core count n >= 1 the pool has exactly max(1, n - 2)
\* threads (6 for n = 8, 1 for n = 1, never 0), and its size is set once, at
\* construction, and never changes.
C20_WorkerPoolSize ==
    /\ [](/\ logic_cores >= 1
          /\ worker_count = Max(1, logic_cores - 2)
          /\ DOMAIN working = 1 .. worker_count
          /\ worker_count >= 1
          /\ logic_cores = 8 => worker_count = 6
          /\ logic_cores = 1 => worker_count = 1)
    /\ [][worker_count' = worker_count /\ DOMAIN working' = DOMAIN working]_vars

\* on a machine of 8 cores the sixth pool thread is advancing a slot
C20_Witness ==
    /\ logic_cores = 8
    /\ worker_count = 6
    /\ working[6] # <<>>

---------------------------------------------------------------------------
(* C21 *)

\* slot channel x attachment channel, scaled to 0..255
Scaled(s, a) == (s * a * 255) \div (ColorDen * ColorDen)

\* x multiplied by the alpha byte a, rounded either way
TimesAlpha(x, a) == { (x * a) \div 255, (x * a + 254) \div 255 }

\* C21: every vertex colour pushed has alpha equal to slot alpha x attachment
\* alpha scaled to 0..255, and each of R, G, B equal to slot channel x
\* attachment channel scaled to 0..255 and multiplied by that alpha, so that
\* R, G, B <= A; white on white gives opaque white, and slot alpha 0.5 on
\* attachment alpha 1.0 gives half of the range.
C21_PremultipliedColor ==
    \A v \in mesh :
        /\ v.color.a = Scaled(v.s_c.a, v.att_c.a)
        /\ v.color.r \in TimesAlpha(Scaled(v.s_c.r, v.att_c.r), v.color.a)
        /\ v.color.g \in TimesAlpha(Scaled(v.s_c.g, v.att_c.g), v.color.a)
        /\ v.color.b \in TimesAlpha(Scaled(v.s_c.b, v.att_c.b), v.color.a)
        /\ v.color.r <= v.color.a /\ v.color.g <= v.color.a /\ v.color.b <= v.color.a
        /\ (v.s_c = White /\ v.att_c = White) => v.color = Color(255, 255, 255, 255)
        /\ (2 * v.s_c.a = ColorDen /\ v.att_c.a = ColorDen) => v.color.a \in { 127, 128 }

---------------------------------------------------------------------------
(* C22 *)

\* C22: a frame that ends with the typewriter still Revealing has requested
\* a repaint, so that the next frame comes without any input and the reveal
\* goes on to the end of the text.
C22_RevealingRequestsRepaint ==
    (pc = "console" /\ visible_count < Len(target_chars)) => repaint

---------------------------------------------------------------------------
(* C23 *)

\* a step that applies a command of this kind whose slot index is 5 or more
AppliesBeyond(kind) ==
    /\ DrainApplies
    /\ Head(queue).c.kind = kind
    /\ Head(queue).c.slot >= 5

\* C23: the slot table always has exactly 5 entries, each empty or holding
\* one entity; a RequestLoad for a slot index of 5 or more is accepted like
\* any other (it logs 'Loading slot <k>...' and starts one loader thread), and
\* the LoadSuccess that answers it is dropped when applied: no slot changes
\* and no line is logged.
C23_FiveSlots ==
    /\ [](/\ DOMAIN characters = 0 .. 4
          /\ \A s \in DOMAIN characters : Len(characters[s]) <= 1)
    /\ [][ AppliesBeyond("RequestLoad") =>
             /\ console_logs' =
                  Append(console_logs,
                         LogLine("Loading slot {}...", Head(queue).c.slot, 0, <<>>))
             /\ threads \subseteq threads'
             /\ Cardinality(threads' \ threads) = 1
             /\ \A t \in threads' \ threads :
                   t.kind = "load" /\ t.slot = Head(queue).c.slot
             /\ characters' = characters
         ]_vars
    /\ [][ AppliesBeyond("LoadSuccess") =>
             /\ characters' = characters
             /\ console_logs' = console_logs
             /\ threads' = threads
         ]_vars

\* `LOAD 7 a` was entered, its files were found, and its LoadSuccess has been
\* applied: the log has 'Loading slot 7...', no 'Slot 7 Loaded', no slot is held
C23_Witness ==
    /\ \E i \in Applied :
          AppliedAt(i).c.kind = "LoadSuccess" /\ AppliedAt(i).c.slot = 7
    /\ \E k \in 1..Len(console_logs) :
          console_logs[k] = LogLine("Loading slot {}...", 7, 0, <<>>)
    /\ \A k \in 1..Len(console_logs) :
          console_logs[k].fmt # "Slot {} Loaded. Anims: {}"
    /\ Occupied = {}

===========================================================================
